---- MODULE Spec2Model ----
(***************************************************************************)
(* Model of include/define_enum.hpp: the macro                             *)
(* DEFINE_ENUM_WITH_STRING_CONVERSIONS(EnumName, ENUM_DEF) and the four    *)
(* artifacts it generates (the scoped enum, EnumName_names, to_string,     *)
(* EnumName_from_string, operator<<).                                      *)
(*                                                                         *)
(* Identifier tokens are TLA+ strings; a std::string_view is a sequence of *)
(* one-character strings; std::array is a function on 0..size-1.           *)
(***************************************************************************)
EXTENDS Integers, Sequences, FiniteSets, TLC

\* Longest enumerator list handed to the macro.
MaxN == 3

\* Most characters a sink is made to hold.
MaxOut == 6

\* Widest field width a caller sets on a sink.
MaxWidth == 4

\* Number of threads calling the conversions at once.
NThreads == 2

Threads == 1..NThreads

\* Identifier tokens an X-macro may list.
Identifiers == {"red", "green", "blue", "Red", "re", "TOTAL"}

\* The texts callers pass as std::string_view (and the texts a wild read may show).
Text ==
    { <<"r", "e", "d">>, <<"g", "r", "e", "e", "n">>, <<"b", "l", "u", "e">>,
      <<"R", "e", "d">>, <<"r", "e">>, <<"p", "u", "r", "p", "l", "e">>,
      <<"T", "O", "T", "A", "L">>, <<>> }

VARIABLES
    ENUM_DEF,        \* the X-macro's enumerator list, in source order
    NDEBUG,          \* whether the translation unit is built with NDEBUG
    phase,           \* "source" | "rejected" | "generated" | "terminated"
    EnumName,        \* the generated enum: enumerator |-> integral value
    EnumName_names,  \* the generated std::array of spellings
    last,            \* the most recent conversion call and its outcome
    prev,            \* the conversion call before it
    os,              \* the std::ostream the stream operator writes to
    thr              \* per thread: the call it is executing, or its finished call

vars == <<ENUM_DEF, NDEBUG, phase, EnumName, EnumName_names, last, prev, os, thr>>

Range(f) == {f[x] : x \in DOMAIN f}

\* Every list of 1 to n identifiers, duplicates included.
ListsUpTo(n) == UNION {[1..k -> Identifiers] : k \in 1..n}

(***************************************************************************)
(* Generation (translation of the macro invocation)                        *)
(***************************************************************************)


\* #define EU_ENUM_DECLARE(name) name,   -- an enumerator declaration
EU_ENUM_DECLARE(name) == name

\* #define EU_ENUM_STRING(name) #name,   -- the token's characters as a literal
EU_ENUM_STRING(name) ==
    CASE name = "red"   -> <<"r", "e", "d">>
      [] name = "green" -> <<"g", "r", "e", "e", "n">>
      [] name = "blue"  -> <<"b", "l", "u", "e">>
      [] name = "Red"   -> <<"R", "e", "d">>
      [] name = "re"    -> <<"r", "e">>
      [] name = "TOTAL" -> <<"T", "O", "T", "A", "L">>

\* ENUM_DEF(EU_ENUM_DECLARE): the X-macro applies the helper to each listed
\* identifier, in order.
Declarations == [k \in 1..Len(ENUM_DEF) |-> EU_ENUM_DECLARE(ENUM_DEF[k])]

\* ENUM_DEF(EU_ENUM_STRING)
Spellings == [k \in 1..Len(ENUM_DEF) |-> EU_ENUM_STRING(ENUM_DEF[k])]

\* enum class EnumName { ENUM_DEF(EU_ENUM_DECLARE) TOTAL };
EnumeratorList == Declarations \o <<"TOTAL">>

\* An enumerator may be declared once in its enum; a second declaration of the
\* same name makes the translation unit ill-formed.
WellFormed(decls) == \A j, k \in DOMAIN decls : j # k => decls[j] # decls[k]

\* Faulty variant: enumerator values counted from 1.
RECURSIVE EnumeratorValueFromOne(_)
EnumeratorValueFromOne(k) == IF k = 1 THEN 1 ELSE EnumeratorValueFromOne(k - 1) + 1

\* The first enumerator has value 0, every later one its predecessor's plus 1.
RECURSIVE EnumeratorValue(_)
EnumeratorValue(k) == IF k = 1 THEN 0 ELSE EnumeratorValue(k - 1) + 1

EnumClass(decls) ==
    [n \in Range(decls) |-> EnumeratorValue(CHOOSE k \in DOMAIN decls : decls[k] = n)]

\* std::array<std::string_view, N> a = { inits... }: element i takes the i-th
\* initializer; elements without one are empty views.
ArrayInit(n, inits) ==
    [i \in 0..(n - 1) |-> IF i + 1 <= Len(inits) THEN inits[i + 1] ELSE <<>>]

NoCall == [op |-> "none"]

\* A newly constructed stream: nothing written, no field width, right
\* adjustment, good state.
FreshSink == [contents |-> <<>>, width |-> 0, left |-> FALSE, failed |-> FALSE]

Idle == [pc |-> "idle"]

Init ==
    /\ ENUM_DEF \in ListsUpTo(MaxN)
    /\ NDEBUG \in BOOLEAN
    /\ phase = "source"
    /\ EnumName = <<>>
    /\ EnumName_names = <<>>
    /\ last = NoCall
    /\ prev = NoCall
    /\ os = FreshSink
    /\ thr = [t \in Threads |-> Idle]

\* DEFINE_ENUM_WITH_STRING_CONVERSIONS(EnumName, ENUM_DEF)
Generate ==
    /\ phase = "source"
    /\ IF WellFormed(EnumeratorList)
       THEN /\ phase' = "generated"
            /\ EnumName' = EnumClass(EnumeratorList)
            /\ EnumName_names' =
                   ArrayInit(EnumClass(EnumeratorList)["TOTAL"], Spellings)
       ELSE /\ phase' = "rejected"
            /\ UNCHANGED <<EnumName, EnumName_names>>
    /\ UNCHANGED <<ENUM_DEF, NDEBUG, last, prev, os, thr>>

(***************************************************************************)
(* The generated conversions                                               *)
(***************************************************************************)

\* EnumName_names.size()
size == Cardinality(DOMAIN EnumName_names)

\* The values an EnumName object is given here: the variants, TOTAL, and one
\* value past TOTAL (a static_cast of an integer no enumerator has).
EnumValues == 0..(size + 1)

\* Faulty variant: comparison that ignores letter case.
Lower(c) == CASE c = "R" -> "r" [] c = "T" -> "t" [] c = "O" -> "o"
              [] c = "A" -> "a" [] c = "L" -> "l" [] OTHER -> c
SvEqNoCase(a, b) == Len(a) = Len(b) /\ \A k \in 1..Len(a) : Lower(a[k]) = Lower(b[k])

\* Faulty variant: comparison that accepts a table entry that is a prefix of the input.
SvEqPrefix(a, b) == Len(a) <= Len(b) /\ \A k \in 1..Len(a) : a[k] = b[k]

\* std::string_view operator==: equal sizes and equal characters.
SvEq(a, b) == Len(a) = Len(b) /\ \A k \in 1..Len(a) : a[k] = b[k]

\* EnumName_names[idx] with idx >= size reads outside the array: the read may
\* show any text or fault.
OutOfBoundsRead(idx) ==
    {[kind |-> "returned", val |-> s, idx |-> idx] : s \in Text}
        \cup {[kind |-> "crashed", val |-> <<>>, idx |-> idx]}

\* Faulty variant: the table is read one element too far.
ToStringOffByOne(value) ==
    IF value + 1 < size
    THEN {[kind |-> "returned", val |-> EnumName_names[value + 1], idx |-> value + 1]}
    ELSE OutOfBoundsRead(value + 1)

\* return EnumName_names[static_cast<std::size_t>(value)];
to_string(value) ==
    IF value < size
    THEN {[kind |-> "returned", val |-> EnumName_names[value], idx |-> value]}
    ELSE OutOfBoundsRead(value)

\* Control reaches the closing brace of a function returning EnumName: the
\* caller may receive any value, or the program may fault.
FlowsOffEnd ==
    {[kind |-> "returned", val |-> v] : v \in EnumValues}
        \cup {[kind |-> "crashed", val |-> -1]}

\* assert(false && "Invalid Enum name"); -- compiled out under NDEBUG
AssertFalse == IF NDEBUG THEN FlowsOffEnd ELSE {[kind |-> "aborted", val |-> -1]}

\* Faulty variant: the loop returns the index after the matching one.
RECURSIVE ScanOffByOne(_, _)
ScanOffByOne(i, sv) ==
    IF i < size
    THEN IF SvEq(EnumName_names[i], sv)
         THEN {[kind |-> "returned", val |-> i + 1]}
         ELSE ScanOffByOne(i + 1, sv)
    ELSE AssertFalse

\* for (i = 0; i < size(); ++i) if (names[i] == sv) return static_cast<EnumName>(i);
RECURSIVE Scan(_, _)
Scan(i, sv) ==
    IF i < size
    THEN IF SvEq(EnumName_names[i], sv)
         THEN {[kind |-> "returned", val |-> i]}
         ELSE Scan(i + 1, sv)
    ELSE AssertFalse

EnumName_from_string(sv) == Scan(0, sv)

\* What a finished call leaves the program in.
After(out) == IF out.kind = "returned" THEN "generated" ELSE "terminated"

CallToString(value) ==
    /\ phase = "generated"
    /\ \E out \in to_string(value) :
          /\ last' = [op |-> "to_string", arg |-> value, out |-> out]
          /\ phase' = After(out)
    /\ prev' = last
    /\ UNCHANGED <<ENUM_DEF, NDEBUG, EnumName, EnumName_names, os, thr>>

CallFromString(sv) ==
    /\ phase = "generated"
    /\ \E out \in EnumName_from_string(sv) :
          /\ last' = [op |-> "from_string", arg |-> sv, out |-> out]
          /\ phase' = After(out)
    /\ prev' = last
    /\ UNCHANGED <<ENUM_DEF, NDEBUG, EnumName, EnumName_names, os, thr>>

Next ==
    \/ Generate
    \/ \E value \in EnumValues : CallToString(value)
    \/ \E sv \in Text : CallFromString(sv)

Spec == Init /\ [][Next]_vars

(***************************************************************************)
(* The demo's enum, and the stream insertion operator                      *)
(***************************************************************************)

\* #define COLOUR_ENUM(X) X(red) X(green) X(blue)
COLOUR_ENUM == <<"red", "green", "blue">>

\* DEFINE_ENUM_WITH_STRING_CONVERSIONS(Colour, COLOUR_ENUM)
InitColour == Init /\ ENUM_DEF = COLOUR_ENUM

Max(a, b) == IF a >= b THEN a ELSE b

\* n copies of the stream's fill character (a space unless changed).
Fill(n) == [k \in 1..n |-> " "]

\* os << text, for a string_view or a char: a formatted output function.  A
\* stream that is not good() receives nothing; otherwise the text is padded
\* with the fill character to the field width, on the side the adjustment
\* selects, and the width is reset to 0.
OstreamInsert(s, text) ==
    IF s.failed
    THEN s
    ELSE LET pad == IF s.width > Len(text) THEN s.width - Len(text) ELSE 0
         IN  [s EXCEPT !.contents = @ \o (IF s.left THEN text \o Fill(pad)
                                                    ELSE Fill(pad) \o text),
                       !.width = 0]

\* The text still fits the sink.
Fits(text) == Len(os.contents) + Max(os.width, Len(text)) <= MaxOut

\* Faulty variant: the operator ends each value with a newline.
operator_insert_line(value) ==
    /\ phase = "generated"
    /\ \E out \in to_string(value) :
          /\ Fits(out.val \o <<"\n">>)
          /\ last' = [op |-> "insert", arg |-> value, before |-> os,
                      ret |-> IF out.kind = "returned" THEN "os" ELSE "none"]
          /\ os' = IF out.kind = "returned"
                   THEN OstreamInsert(OstreamInsert(os, out.val), <<"\n">>)
                   ELSE os
          /\ phase' = After(out)
    /\ UNCHANGED <<ENUM_DEF, NDEBUG, EnumName, EnumName_names, prev, thr>>

\* std::ostream& operator<<(std::ostream& os, EnumName value)
\*     { return os << to_string(value); }
operator_insert(value) ==
    /\ phase = "generated"
    /\ \E out \in to_string(value) :
          /\ Fits(out.val)
          /\ last' = [op |-> "insert", arg |-> value, before |-> os,
                      ret |-> IF out.kind = "returned" THEN "os" ELSE "none"]
          /\ os' = IF out.kind = "returned" THEN OstreamInsert(os, out.val) ELSE os
          /\ phase' = After(out)
    /\ UNCHANGED <<ENUM_DEF, NDEBUG, EnumName, EnumName_names, prev, thr>>

\* std::cout << c << '\n': the char written to the stream the operator returned.
PutChar(c) ==
    /\ phase = "generated"
    /\ Fits(<<c>>)
    /\ last' = [op |-> "put", arg |-> c, before |-> os, ret |-> "os"]
    /\ os' = OstreamInsert(os, <<c>>)
    /\ UNCHANGED <<ENUM_DEF, NDEBUG, phase, EnumName, EnumName_names, prev, thr>>

\* The sink's owner sets a field width (os << std::setw(w)).
SetWidth(w) ==
    /\ phase = "generated"
    /\ os' = [os EXCEPT !.width = w]
    /\ last' = NoCall
    /\ UNCHANGED <<ENUM_DEF, NDEBUG, phase, EnumName, EnumName_names, prev, thr>>

\* The sink's owner selects left adjustment (os << std::left).
SetLeft ==
    /\ phase = "generated"
    /\ os' = [os EXCEPT !.left = TRUE]
    /\ last' = NoCall
    /\ UNCHANGED <<ENUM_DEF, NDEBUG, phase, EnumName, EnumName_names, prev, thr>>

\* The sink fails (os.setstate(std::ios_base::failbit), a full device, ...).
SetFail ==
    /\ phase = "generated"
    /\ os' = [os EXCEPT !.failed = TRUE]
    /\ last' = NoCall
    /\ UNCHANGED <<ENUM_DEF, NDEBUG, phase, EnumName, EnumName_names, prev, thr>>

NextSink ==
    \/ Generate
    \/ \E value \in EnumValues : operator_insert(value)
    \/ PutChar("\n")
    \/ \E w \in 1..MaxWidth : SetWidth(w)
    \/ SetLeft
    \/ SetFail

SpecSink == InitColour /\ [][NextSink]_vars

(***************************************************************************)
(* Concurrent callers: each thread runs the generated functions on its own *)
(* arguments and locals; EnumName_names is the only object they share.     *)
(***************************************************************************)

\* What the threads pass: a spelling found at the end of the scan, a text
\* that is not in the table, a variant, and TOTAL.
ThreadText == {<<"b", "l", "u", "e">>, <<"p", "u", "r", "p", "l", "e">>}
ThreadValues == {1, size}

Done(op, arg, out) == [pc |-> "done", op |-> op, arg |-> arg, out |-> out]

\* A thread enters EnumName_from_string(sv): std::size_t i = 0.
BeginFromString(t, sv) ==
    /\ phase = "generated"
    /\ thr[t].pc \in {"idle", "done"}
    /\ thr' = [thr EXCEPT ![t] = [pc |-> "scan", sv |-> sv, i |-> 0]]
    /\ UNCHANGED <<ENUM_DEF, NDEBUG, phase, EnumName, EnumName_names, last, prev, os>>

\* Faulty variant: a self-adjusting table: a match is swapped to the front.
ScanStepMoveToFront(t) ==
    /\ phase = "generated"
    /\ thr[t].pc = "scan"
    /\ LET i == thr[t].i
           sv == thr[t].sv
       IN  IF i < size
           THEN IF SvEq(EnumName_names[i], sv)
                THEN /\ thr' = [thr EXCEPT ![t] =
                                    Done("from_string", sv, [kind |-> "returned", val |-> i])]
                     /\ EnumName_names' = [EnumName_names EXCEPT ![0] = EnumName_names[i],
                                                                 ![i] = EnumName_names[0]]
                     /\ UNCHANGED phase
                ELSE /\ thr' = [thr EXCEPT ![t].i = i + 1]
                     /\ UNCHANGED <<phase, EnumName_names>>
           ELSE /\ \E out \in AssertFalse :
                      /\ thr' = [thr EXCEPT ![t] = Done("from_string", sv, out)]
                      /\ phase' = After(out)
                /\ UNCHANGED EnumName_names
    /\ UNCHANGED <<ENUM_DEF, NDEBUG, EnumName, last, prev, os>>

\* One iteration of the thread's loop: the bound test, the comparison with
\* EnumName_names[i], then the return or ++i; past the loop, the assert.
ScanStep(t) ==
    /\ phase = "generated"
    /\ thr[t].pc = "scan"
    /\ LET i == thr[t].i
           sv == thr[t].sv
       IN  IF i < size
           THEN /\ thr' = [thr EXCEPT ![t] =
                              IF SvEq(EnumName_names[i], sv)
                              THEN Done("from_string", sv, [kind |-> "returned", val |-> i])
                              ELSE [pc |-> "scan", sv |-> sv, i |-> i + 1]]
                /\ UNCHANGED phase
           ELSE \E out \in AssertFalse :
                    /\ thr' = [thr EXCEPT ![t] = Done("from_string", sv, out)]
                    /\ phase' = After(out)
    /\ UNCHANGED <<ENUM_DEF, NDEBUG, EnumName, EnumName_names, last, prev, os>>

\* A thread calls to_string(value): one read of the table.
ThreadToString(t, value) ==
    /\ phase = "generated"
    /\ thr[t].pc \in {"idle", "done"}
    /\ \E out \in to_string(value) :
          /\ thr' = [thr EXCEPT ![t] = Done("to_string", value, out)]
          /\ phase' = After(out)
    /\ UNCHANGED <<ENUM_DEF, NDEBUG, EnumName, EnumName_names, last, prev, os>>

\* A thread calls operator<< on a stream of its own: first to_string(value) ...
InsertBegin(t, value) ==
    /\ phase = "generated"
    /\ thr[t].pc \in {"idle", "done"}
    /\ \E out \in to_string(value) :
          /\ thr' = [thr EXCEPT ![t] =
                        IF out.kind = "returned"
                        THEN [pc |-> "insert", value |-> value, text |-> out.val]
                        ELSE Done("insert", value, [kind |-> out.kind, val |-> <<>>])]
          /\ phase' = After(out)
    /\ UNCHANGED <<ENUM_DEF, NDEBUG, EnumName, EnumName_names, last, prev, os>>

\* ... then os << text, into the thread's newly constructed stream.
InsertWrite(t) ==
    /\ phase = "generated"
    /\ thr[t].pc = "insert"
    /\ thr' = [thr EXCEPT ![t] =
                  Done("insert", thr[t].value,
                       [kind |-> "returned",
                        val |-> OstreamInsert(FreshSink, thr[t].text).contents])]
    /\ UNCHANGED <<ENUM_DEF, NDEBUG, phase, EnumName, EnumName_names, last, prev, os>>

NextConc ==
    \/ Generate
    \/ \E t \in Threads, sv \in ThreadText : BeginFromString(t, sv)
    \/ \E t \in Threads : ScanStep(t)
    \/ \E t \in Threads, value \in ThreadValues : ThreadToString(t, value)
    \/ \E t \in Threads, value \in ThreadValues : InsertBegin(t, value)
    \/ \E t \in Threads : InsertWrite(t)

SpecConc == InitColour /\ [][NextConc]_vars

(***************************************************************************)
(* Properties of generation and of the two conversions (under Spec)        *)
(***************************************************************************)

\* The number of enumerators the caller listed.
N == Len(ENUM_DEF)

Generated == phase \in {"generated", "terminated"}

InTable(s) == \E i \in DOMAIN EnumName_names : EnumName_names[i] = s

IsCall(c, op) == c.op = op
Returned(c) == c.out.kind = "returned"

\* C1 -- Bijection: with a duplicate-free list, parsing the text that to_string
\* gave for the variant of ordinal i in 0..N-1 returns that same variant.
C1_Bijection ==
    (/\ IsCall(prev, "to_string") /\ prev.arg \in 0..(N - 1)
     /\ IsCall(last, "from_string") /\ last.arg = prev.out.val)
        => (Returned(last) /\ last.out.val = prev.arg)

C1_Witness ==
    /\ N = MaxN
    /\ IsCall(prev, "to_string") /\ prev.arg = N - 1
    /\ IsCall(last, "from_string") /\ last.arg = prev.out.val
    /\ Returned(last) /\ last.out.val = N - 1

\* C2 -- Round-trip stability: for every spelling s of the Name Table,
\* rendering the variant that from_string(s) returned gives s back.
C2_RoundTrip ==
    (/\ IsCall(prev, "from_string") /\ InTable(prev.arg)
     /\ IsCall(last, "to_string") /\ last.arg = prev.out.val)
        => (Returned(last) /\ last.out.val = prev.arg)

C2_Witness ==
    /\ N >= 2
    /\ IsCall(prev, "from_string") /\ prev.arg = EnumName_names[N - 1]
    /\ IsCall(last, "to_string") /\ last.arg = prev.out.val
    /\ Returned(last) /\ last.out.val = prev.arg

\* C3 -- Unknown input: a text absent from the Name Table always ends
\* from_string in the assertion halt; it never returns a variant.
C3_UnknownInputFails ==
    (IsCall(last, "from_string") /\ ~InTable(last.arg)) => last.out.kind = "aborted"

\* C4 (as stated) -- First match wins: from_string returns the smallest index
\* whose spelling equals the input; and generating from [red, red, blue] gives
\* a table in which ordinals 0 and 1 both render "red", from_string("red") is
\* ordinal 0 and no input is parsed to ordinal 1.
SmallestMatch(s) ==
    CHOOSE i \in DOMAIN EnumName_names :
        /\ EnumName_names[i] = s
        /\ \A j \in DOMAIN EnumName_names : EnumName_names[j] = s => i <= j

RedRedBlue == <<"red", "red", "blue">>

C5_SuccessObservable ==
    (/\ IsCall(prev, "from_string") /\ InTable(prev.arg)
     /\ IsCall(last, "from_string") /\ ~InTable(last.arg))
        => last.out # prev.out

\* C6 -- Order preservation: each generated variant's ordinal is its
\* zero-based position in the list, and Name Table entry i is the spelling of
\* list entry i.
C6_OrderPreserved ==
    Generated =>
        \A k \in 1..N :
            /\ EnumName[ENUM_DEF[k]] = k - 1
            /\ EnumName_names[k - 1] = EU_ENUM_STRING(ENUM_DEF[k])

C6_Witness ==
    /\ phase = "generated"
    /\ ENUM_DEF = <<"red", "green", "blue">>
    /\ EnumName["red"] = 0 /\ EnumName["green"] = 1 /\ EnumName["blue"] = 2
    /\ EnumName_names[1] = <<"g", "r", "e", "e", "n">>

\* C7 -- Count invariant: TOTAL has ordinal N, the Name Table has exactly N
\* entries, and from_string never returns TOTAL.
C7_CountInvariant ==
    Generated =>
        /\ EnumName["TOTAL"] = N
        /\ size = N
        /\ (IsCall(last, "from_string") /\ Returned(last))
               => last.out.val # EnumName["TOTAL"]

\* C8 -- to_string on a variant of ordinal 0..N-1 reads inside the table and
\* returns NameTable[ordinal]; only TOTAL or a value past it reads outside.
C8_ToStringTotal ==
    IsCall(last, "to_string") =>
        IF last.arg \in 0..(N - 1)
        THEN /\ Returned(last)
             /\ last.out.idx \in DOMAIN EnumName_names
             /\ last.out.val = EnumName_names[last.arg]
        ELSE last.out.idx \notin DOMAIN EnumName_names

C8_Witness ==
    /\ N = MaxN
    /\ IsCall(last, "to_string") /\ last.arg = N - 1
    /\ Returned(last) /\ last.out.val = EU_ENUM_STRING(ENUM_DEF[N])
    /\ IsCall(prev, "to_string") /\ prev.arg = 0

(***************************************************************************)
(* Properties of the stream operator (under SpecSink)                      *)
(***************************************************************************)

\* What the sink holds beyond what it held before the last call.
Added == SubSeq(os.contents, Len(last.before.contents) + 1, Len(os.contents))

PreviousKept == SubSeq(os.contents, 1, Len(last.before.contents)) = last.before.contents

\* C9 (as stated) -- writing a valid variant v to a sink appends exactly the
\* characters of to_string(v) after the previous contents, without padding,
\* and returns the same sink.
C9_AppendsExactlySpelling ==
    (IsCall(last, "insert") /\ last.arg \in 0..(N - 1))
        => /\ os.contents = last.before.contents \o EnumName_names[last.arg]
           /\ last.ret = "os"

\* C9 (amended) -- writing a valid variant v to a sink does exactly what
\* writing the text to_string(v) to it does, adding no quote and no newline:
\* the previous contents stay, the same sink is returned, a good sink with no
\* wider field width pending gets exactly the characters of to_string(v), a
\* wider pending field width pads them with fill characters to that width on
\* the adjustment's side, and a failed sink gets nothing; a char written next
\* lands after them.
C9_PassThrough ==
    /\ (IsCall(last, "insert") /\ last.arg \in 0..(N - 1))
           => LET text == EnumName_names[last.arg]
                  b == last.before
                  pad == Len(Added) - Len(text)
              IN  /\ last.ret = "os"
                  /\ PreviousKept
                  /\ \A k \in 1..Len(Added) : Added[k] \notin {"\n", "\""}
                  /\ b.failed => Added = <<>>
                  /\ (~b.failed /\ b.width <= Len(text)) => Added = text
                  /\ (~b.failed /\ b.width > Len(text))
                         => /\ Len(Added) = b.width
                            /\ IF b.left
                               THEN /\ SubSeq(Added, 1, Len(text)) = text
                                    /\ \A k \in (Len(text) + 1)..b.width : Added[k] = " "
                               ELSE /\ SubSeq(Added, pad + 1, b.width) = text
                                    /\ \A k \in 1..pad : Added[k] = " "
    /\ (IsCall(last, "put") /\ ~last.before.failed /\ last.before.width <= 1)
           => os.contents = last.before.contents \o <<last.arg>>

C9_Witness ==
    /\ IsCall(last, "insert") /\ last.arg = 1
    /\ last.before.contents = <<"\n">>
    /\ last.before.width = 0
    /\ os.contents = <<"\n", "g", "r", "e", "e", "n">>

(***************************************************************************)
(* Properties of concurrent callers (under SpecConc)                       *)
(***************************************************************************)

\* The outcomes of the call when it runs alone on the same argument.
Alone(op, arg) ==
    CASE op = "from_string" -> EnumName_from_string(arg)
      [] op = "to_string" -> to_string(arg)
      [] op = "insert" ->
            {IF o.kind = "returned"
             THEN [kind |-> "returned", val |-> OstreamInsert(FreshSink, o.val).contents]
             ELSE [kind |-> o.kind, val |-> <<>>] : o \in to_string(arg)}

\* C10 -- No shared mutable state: under every interleaving of the threads'
\* calls the Name Table stays the generated one, and each finished call has an
\* outcome the same call has when run alone on the same argument.
C10_NoInterference ==
    Generated =>
        /\ EnumName_names = ArrayInit(N, Spellings)
        /\ \A t \in Threads :
               thr[t].pc = "done" => thr[t].out \in Alone(thr[t].op, thr[t].arg)

C10_Witness ==
    /\ thr[1].pc = "done" /\ thr[1].op = "from_string"
    /\ thr[1].arg = <<"b", "l", "u", "e">> /\ thr[1].out.val = 2
    /\ thr[2].pc = "scan" /\ thr[2].i = 1

====
